---------------------------- MODULE Spec2Model ----------------------------
(***************************************************************************)
(* Z-Wave -> MQTT bridge (zwave_mqtt_bridge).                              *)
(*                                                                         *)
(* Two threads drive the Bridge object:                                    *)
(*   - the Z-Wave notification thread, which calls Bridge.value_update     *)
(*     through pydispatch (main.py:89);                                    *)
(*   - the MQTT client's network thread started by loop_start()            *)
(*     (hass_mqtt.py:139), which calls HassMqtt._on_message and through it *)
(*     Bridge._on_message (bridge.py:31).                                  *)
(* Bridge.register_all is called from the start-up loop (main.py:37) and   *)
(* from the web route /ha/register (app.py:67-69).                         *)
(*                                                                         *)
(* Time is the integer number of seconds returned by time.time().          *)
(***************************************************************************)
EXTENDS Integers, Sequences, FiniteSets, TLC

\* ------------------------------------------------------------------ bounds
MaxSteps == 4           \* events, messages and clock steps of the two threads
MaxTicks == 2           \* clock steps between check_for_repair calls
MaxCalls == 3           \* check_for_repair calls, when only they are made
MaxBurst == 601         \* is_spamming calls with the clock standing still
MaxNodeCalls == 4       \* calls on a node, when only they are made
MaxSame == 11           \* values of one command class sharing one label

\* ------------------------------------------------------- program constants
RepairThrottle == 5 * 60            \* bridge.py:54
DayLength == 24 * 60 * 60           \* bridge.py:57

\* The clock: a start shortly before midnight of day StartDay, and the
\* amounts by which it advances between two steps of the program.
StartDay == 20000
StartTimes == { StartDay * DayLength + 1000, (StartDay + 1) * DayLength - 100 }
TimeSteps == { 1, 200, RepairThrottle + 1, DayLength }

\* int(time.time() / (24*60*60))
DayIndex(t) == t \div DayLength

VARIABLES
    now,                  \* time.time()
    healing,              \* Bridge._healing
    repair_time,          \* Bridge._repair_time
    last_repair_attempt,  \* Bridge._last_repair_attempt
    last_config,          \* Bridge._last_config
    actions,              \* Bridge._actions: topic -> action
    nodes,                \* Bridge._nodes: node.name -> ZwNode
    zw_values,                \* the network's values: value id -> data
    published,            \* the messages handed to the MQTT client
    vpc,                  \* position of the Z-Wave thread in value_update
    vlocal,               \* its locals: the event and `now` of line 57
    mpc,                  \* position of the MQTT thread in _on_message
    mlocal,               \* its locals: id, topic, data of the message
    calls,                \* history: the check_for_repair calls made
    heals,                \* history: the heals that ended
    invocations,          \* history: the action.action(data) calls made
    dropped,              \* history: the messages skipped at lines 71-73
    escaped,              \* history: exceptions that left value_update
    nEvents, nMsgs, nTicks,
    labels,               \* a Labels instance on its own
    firstLabel,           \* history: (cc, vid) -> label first returned
    lastCall,             \* history: the last get_true_label call on labels
    firstRaw,             \* history: (cc, vid) -> raw label of that call
    znode,                \* a ZwNode on its own
    zout,                 \* the messages it handed to the MQTT client
    zhist,                \* history: the last call made on it
    spamHist              \* history: the is_spamming calls made on it

bridgeVars == << healing, repair_time, last_repair_attempt, last_config,
                 actions, nodes, published >>
threadVars == << vpc, vlocal, mpc, mlocal >>
historyVars == << calls, heals, invocations, dropped, escaped >>
countVars == << nEvents, nMsgs, nTicks >>
labelVars == << labels, firstLabel, lastCall, firstRaw >>

nodeVars == << znode, zout, zhist, spamHist >>

vars == << now, zw_values, bridgeVars, threadVars, historyVars, countVars,
           labelVars, nodeVars >>


\* =================================================================== Labels
\* Strings are sequences of one-character strings.

\* str.lower() on the characters the model uses
LowerChar(c) ==
    CASE c = "A" -> "a"
      [] c = "B" -> "b"
      [] c = "L" -> "l"
      [] c = "P" -> "p"
      [] c = "S" -> "s"
      [] c = "T" -> "t"
      [] OTHER -> c

\* Labels._format_label: label.lower().replace(" ", "_")
format_label(label) ==
    [ i \in 1..Len(label) |->
        IF LowerChar(label[i]) = " " THEN "_" ELSE LowerChar(label[i]) ]

Digits == << "0", "1", "2", "3", "4", "5", "6", "7", "8", "9" >>

IsDigit(c) == \E i \in 1..10 : Digits[i] = c

\* int(c) of a one-digit string
DigitValue(c) == (CHOOSE i \in 1..10 : Digits[i] = c) - 1

\* str(n) for a non-negative integer
RECURSIVE Str(_)
Str(n) == IF n < 10 THEN << Digits[n + 1] >>
          ELSE Str(n \div 10) \o << Digits[(n % 10) + 1] >>

\* One pass of the body of the while loop of get_true_label (lines 36-43).
\* label[-2] and label[-3] raise IndexError on a label that is too short,
\* int() raises ValueError on a character that is no digit.
NextCandidate(label) ==
    LET n == Len(label) IN
    IF n < 2 THEN [ kind |-> "IndexError", label |-> label ]
    ELSE IF label[n - 1] = "_" THEN
        IF IsDigit(label[n])
        THEN [ kind |-> "ok",
               label |-> SubSeq(label, 1, n - 2) \o << "_" >>
                         \o Str(DigitValue(label[n]) + 1) ]
        ELSE [ kind |-> "ValueError", label |-> label ]
    ELSE IF n < 3 THEN [ kind |-> "IndexError", label |-> label ]
    ELSE IF label[n - 2] = "_" THEN
        IF IsDigit(label[n - 1])
        THEN [ kind |-> "ok",
               label |-> SubSeq(label, 1, n - 3) \o << "_" >>
                         \o Str(DigitValue(label[n - 1]) + 1) ]
        ELSE [ kind |-> "ValueError", label |-> label ]
    ELSE [ kind |-> "ok", label |-> label \o << "_", "2" >> ]

\* A loop that takes the first candidate without looking at the taken set
FreeLabelUnchecked(ccs, label, taken, fuel) ==
    [ kind |-> "ok", label |-> label ]

\* The while loop of line 35. Every candidate the loop leaves behind is in
\* the taken set, so a loop that has left behind more candidates than the set
\* holds is revisiting one and never ends ("hang").
RECURSIVE FreeLabel(_, _, _, _)
\* the loop goes on with candidate c, or ends with the exception c holds
NextFreeLabel(ccs, c, taken, fuel) ==
    IF c.kind # "ok" THEN c ELSE FreeLabel(ccs, c.label, taken, fuel)

FreeLabel(ccs, label, taken, fuel) ==
    IF (ccs \o label) \notin taken THEN [ kind |-> "ok", label |-> label ]
    ELSE IF fuel = 0 THEN [ kind |-> "hang", label |-> label ]
    ELSE NextFreeLabel(ccs, NextCandidate(label), taken, fuel - 1)

\* A Labels instance: _label_map as a function on the keys it holds,
\* _taken_labels as a set.
NewLabels == [ label_map |-> << >>, taken_labels |-> {} ]

\* `if not true_name`: None (no entry) and the empty string are both falsy.
Falsy(lab, key) ==
    \/ key \notin DOMAIN lab.label_map
    \/ lab.label_map[key] = << >>

\* Lines 44-46: the label r the loop ended with is recorded under the taken
\* key of the class and under `key`; an exception changes nothing.
StoreLabel(lab, ccs, key, r) ==
    IF r.kind = "ok"
    THEN [ kind |-> "ok", label |-> r.label,
           lab |-> [ label_map |->
                       [ k \in DOMAIN lab.label_map \cup { key } |->
                           IF k = key THEN r.label ELSE lab.label_map[k] ],
                     taken_labels |->
                       lab.taken_labels \cup { ccs \o r.label } ] ]
    ELSE [ kind |-> r.kind, label |-> r.label, lab |-> lab ]

\* Labels.get_true_label(value): the outcome (kind "ok" with the label
\* returned, or the exception raised, or "hang") and the instance afterwards.
get_true_label(lab, cc, vid, raw) ==
    IF Falsy(lab, Str(cc) \o Str(vid))
    THEN StoreLabel(lab, Str(cc), Str(cc) \o Str(vid),
                    FreeLabel(Str(cc), format_label(raw), lab.taken_labels,
                              Cardinality(lab.taken_labels)))
    ELSE [ kind |-> "ok", label |-> lab.label_map[Str(cc) \o Str(vid)],
           lab |-> lab ]

\* ================================================================ the world
\* The Z-Wave network the bridge is attached to: two mains-powered devices
\* (no battery level, no RGB bulb) and the value-points they expose.
\* Command classes are the Z-Wave numbers the bridge imports from
\* zwave_mqtt_bridge.command_classes.
COMMAND_CLASS_SWITCH == 37
COMMAND_CLASS_DIMMER == 38
COMMAND_CLASS_SENSOR == 49
COMMAND_CLASS_RGB == 51
COMMAND_CLASS_CONFIGURATION == 112
COMMAND_CLASS_NOTIFICATION == 113
SENSORS == { COMMAND_CLASS_SENSOR }

\* ZWaveNode.name and ZWaveNode.location: device 2 was given no name
DeviceName(d) == IF d = 1 THEN "Kitchen" ELSE ""
DeviceLocation(d) == "home"

LabelSwitch == << "S", "w" >>
LabelBurglar == << "B", "u", "r", "g", "l", "a", "r" >>
LabelLevel == << "L", "v" >>
LabelParam == << "P" >>

\* ZWaveNode.values: value_id -> ZWaveValue (without its data)
Points ==
    { [ dev |-> 1, vid |-> 1, cc |-> COMMAND_CLASS_SWITCH, genre |-> "User",
        label |-> LabelSwitch ],
      [ dev |-> 1, vid |-> 2, cc |-> COMMAND_CLASS_SENSOR, genre |-> "User",
        label |-> LabelBurglar ],
      [ dev |-> 2, vid |-> 3, cc |-> COMMAND_CLASS_DIMMER, genre |-> "User",
        label |-> LabelLevel ],
      [ dev |-> 2, vid |-> 4, cc |-> COMMAND_CLASS_CONFIGURATION,
        genre |-> "Config", label |-> LabelParam ] }

Point(vid) == CHOOSE p \in Points : p.vid = vid

\* The data the network holds for a value-point when the bridge starts
InitialData(p) ==
    CASE p.cc = COMMAND_CLASS_SWITCH -> FALSE
      [] p.cc = COMMAND_CLASS_SENSOR -> [ type |-> "float", v |-> 20500 ]
      [] p.cc = COMMAND_CLASS_DIMMER -> 0
      [] OTHER -> 7

\* ZWaveNode.get_switches(), get_dimmers(), get_sensors(): value ids
get_switches(d) ==
    { p.vid : p \in { q \in Points : q.dev = d /\ q.cc = COMMAND_CLASS_SWITCH } }
get_dimmers(d) ==
    { p.vid : p \in { q \in Points : q.dev = d /\ q.cc = COMMAND_CLASS_DIMMER } }
get_sensors(d) ==
    { p.vid : p \in { q \in Points : q.dev = d /\ q.cc \in SENSORS } }

\* Bridge(mqtt, ignored_labels): the configured list bridge.ignored
IgnoredLabels == { }

\* An MQTT topic: location + "/" + device_type + "/" + name + "/" + second
\* + "/set" or "/status" (HassCommand.__init__), kept as its parts.
CommandTopic(d, device_type, label) ==
    << DeviceLocation(d), device_type, DeviceName(d), label, "set" >>
StatusTopic(d, device_type, label) ==
    << DeviceLocation(d), device_type, DeviceName(d), label, "status" >>
\* HassSensor.status_metric
MetricTopic(d) == << DeviceLocation(d), "sensor", DeviceName(d), "sensor" >>


\* ================================================================== ZwNode
\* dict[key] = value
Put(f, k, v) == [ x \in DOMAIN f \cup { k } |-> IF x = k THEN v ELSE f[x] ]

\* An optional value: None is {}, the value x is {x}.
None == { }
Some(x) == { x }

SpamBudget == 600        \* zw_node.py:100
SpamWindow == 10         \* zw_node.py:158
SpamRefillCap == 100     \* zw_node.py:160
SpamTimeout == 60        \* zw_node.py:167
MetricsPeriod == 120     \* zw_node.py:84

\* ZwNode.__init__ (with Labels.__init__ and Metrics.__init__): the node
\* entry of device d created at time t. cmds holds, per value id, the
\* _last_status_payload of its HassCommand; metrics_cmd says whether
\* cmds["metrics"] is set; topics is ZwNode._topics.
NewNode(d, t) ==
    [ zwn |-> d,
      spam_tick |-> << t, SpamBudget >>,
      labels |-> NewLabels,
      data |-> << >>,
      dirty |-> FALSE,
      last_metric_ts |-> 0,
      cmds |-> << >>,
      metrics_cmd |-> FALSE,
      topics |-> << >> ]

\* ZwNode._scale_to_hass
scale_to_hass(data) == (data * 255) \div 95

\* An is_spamming whose refill has no cap
IsSpammingUncapped(n, t) ==
    LET refill == t - n.spam_tick[1] > SpamWindow
        count1 == IF refill THEN n.spam_tick[2] + (t - n.spam_tick[1])
                  ELSE n.spam_tick[2]
        count2 == IF count1 > 0
                  THEN (IF count1 - 1 = 0 THEN -SpamTimeout ELSE count1 - 1)
                  ELSE count1
    IN [ spam |-> (count2 = 0),
         n |-> [ n EXCEPT !.spam_tick =
                   << IF refill THEN t ELSE n.spam_tick[1], count2 >> ] ]

\* An is_spamming that takes one from the budget whatever its sign
IsSpammingAlwaysDecrements(n, t) ==
    LET refill == t - n.spam_tick[1] > SpamWindow
        count1 == IF refill
                  THEN (IF n.spam_tick[2] + (t - n.spam_tick[1]) < SpamRefillCap
                        THEN n.spam_tick[2] + (t - n.spam_tick[1])
                        ELSE SpamRefillCap)
                  ELSE n.spam_tick[2]
        count2 == IF count1 - 1 = 0 THEN -SpamTimeout ELSE count1 - 1
    IN [ spam |-> (count2 = 0),
         n |-> [ n EXCEPT !.spam_tick =
                   << IF refill THEN t ELSE n.spam_tick[1], count2 >> ] ]

\* ZwNode.is_spamming at time t: the answer and the node afterwards
is_spamming(n, t) ==
    LET last_time == n.spam_tick[1]
        count0 == n.spam_tick[2]
        intervals == t - last_time
        refill == intervals > SpamWindow
        count1 == IF refill
                  THEN (IF count0 + intervals < SpamRefillCap
                        THEN count0 + intervals ELSE SpamRefillCap)
                  ELSE count0
        last1 == IF refill THEN t ELSE last_time
        count2 == IF count1 > 0
                  THEN (IF count1 - 1 = 0 THEN -SpamTimeout ELSE count1 - 1)
                  ELSE count1
    IN [ spam |-> (count2 = 0),
         n |-> [ n EXCEPT !.spam_tick = << last1, count2 >> ] ]

\* ZwNode.is_spamming, lines 156-161: the budget after the refill
refilled(n, t) ==
    IF t - n.spam_tick[1] > SpamWindow
    THEN (IF n.spam_tick[2] + (t - n.spam_tick[1]) < SpamRefillCap
          THEN n.spam_tick[2] + (t - n.spam_tick[1]) ELSE SpamRefillCap)
    ELSE n.spam_tick[2]

\* The data of a sensor value-point carry their Python type: a float is
\* kept in thousandths, [type |-> "float", v |-> 20500] being 20.5; an int
\* as itself. A str holds a number of two decimals in hundredths, "20.50"
\* being [type |-> "str", v |-> 2050].
Float(thousandths) == [ type |-> "float", v |-> thousandths ]
IntOf(i) == [ type |-> "int", v |-> i ]

\* "%.2f" % value, for a value >= 0 that is no tie of the rounding
format_2f(value) == [ type |-> "str", v |-> (value.v + 5) \div 10 ]

\* Metrics._get_true_value: only floats are reformatted
get_true_value(value) ==
    IF value.type = "float" THEN format_2f(value) ELSE value

\* Variants of the methods below
SetDirectAlwaysDirty(n, key, new_value) ==
    [ n EXCEPT !.data = Put(n.data, key, new_value), !.dirty = TRUE ]

ShouldSendKeepsDirty(n, t) ==
    IF DOMAIN n.data = { } THEN [ send |-> FALSE, n |-> n ]
    ELSE IF n.dirty \/ t - n.last_metric_ts > MetricsPeriod
    THEN [ send |-> TRUE, n |-> [ n EXCEPT !.last_metric_ts = t ] ]
    ELSE [ send |-> FALSE, n |-> n ]

ShouldStatusSendAlways(n, s_id, data) ==
    [ send |-> TRUE, n |-> [ n EXCEPT !.cmds[s_id] = Some(data) ] ]

\* Metrics.set_direct
set_direct(n, key, new_value) ==
    IF key \in DOMAIN n.data /\ n.data[key] = new_value THEN n
    ELSE [ n EXCEPT !.data = Put(n.data, key, new_value), !.dirty = TRUE ]

\* Metrics.set_from_value, lines 73-79, with r the outcome of get_true_label
StoreValue(n, data, r) ==
    IF r.kind # "ok" THEN [ kind |-> r.kind, n |-> n ]
    ELSE IF r.label \in IgnoredLabels
    THEN [ kind |-> "ok", n |-> [ n EXCEPT !.labels = r.lab ] ]
    ELSE [ kind |-> "ok",
           n |-> set_direct([ n EXCEPT !.labels = r.lab ], r.label,
                            get_true_value(data)) ]

\* Metrics.set_from_value for value-point p reporting `data`: the outcome
\* ("ok" or the exception of get_true_label) and the node afterwards.
set_from_value(n, p, data) ==
    StoreValue(n, data, get_true_label(n.labels, p.cc, p.vid, p.label))

\* Metrics.should_send at time t: the answer and the node afterwards
should_send(n, t) ==
    IF DOMAIN n.data = { } THEN [ send |-> FALSE, n |-> n ]
    ELSE IF n.dirty \/ t - n.last_metric_ts > MetricsPeriod
    THEN [ send |-> TRUE,
           n |-> [ n EXCEPT !.dirty = FALSE, !.last_metric_ts = t ] ]
    ELSE [ send |-> FALSE, n |-> n ]

\* HassCommand.should_status_send on the binding of value id s_id
should_status_send(n, s_id, data) ==
    IF n.cmds[s_id] = Some(data) THEN [ send |-> FALSE, n |-> n ]
    ELSE [ send |-> TRUE, n |-> [ n EXCEPT !.cmds[s_id] = Some(data) ] ]

\* The smallest value id of a non-empty set: the order of iteration
Lowest(S) == CHOOSE x \in S : \A y \in S : x <= y

\* ZwNode._collect_initial_sensor_data over the value ids `ids`; zw is the
\* network's cache of the values' data.
RECURSIVE collect_sensor_data(_, _, _)
\* the loop goes on after set_from_value gave r
CollectNext(r, ids, zw) ==
    IF r.kind # "ok" THEN r ELSE collect_sensor_data(r.n, ids, zw)

collect_sensor_data(n, ids, zw) ==
    IF ids = { } THEN [ kind |-> "ok", n |-> n ]
    ELSE CollectNext(set_from_value(n, Point(Lowest(ids)), zw[Lowest(ids)]),
                     ids \ { Lowest(ids) }, zw)

\* HassMqtt.send_metrics called by ZwNode._mqtt_metrics_send: the messages
\* published
mqtt_metrics_send(n) ==
    IF n.metrics_cmd /\ DOMAIN n.data # { }
    THEN << [ topic |-> MetricTopic(n.zwn), payload |-> n.data ] >>
    ELSE << >>

\* HassMqtt.send_switch_state: "OFF" if not state else "ON"
switch_payload(state) == IF state THEN "ON" ELSE "OFF"

\* HassMqtt.send_light_state(cmd, brightness)
light_payload(brightness) ==
    [ state |-> IF brightness = 0 THEN "OFF" ELSE "ON",
      brightness |-> brightness ]

\* HassCommand.status of the binding of value id s_id
StatusOf(n, device_type, s_id) ==
    StatusTopic(n.zwn, device_type,
                n.labels.label_map[Str(Point(s_id).cc) \o Str(s_id)])

\* One pass of the loops of _send_switch_data and _send_dimmer_data: f is
\* what should_status_send answered for s_id, r the rest of the loop.
SendJoin(f, r, topic, payload) ==
    IF ~f.send THEN r
    ELSE [ n |-> r.n,
           out |-> << [ topic |-> topic, payload |-> payload ] >> \o r.out,
           done |-> TRUE ]

\* ZwNode._send_switch_data over the switches `ids`: the node afterwards,
\* the messages published and the value returned
RECURSIVE send_switch_data_loop(_, _, _)
SendSwitchNext(f, s_id, ids, zw) ==
    SendJoin(f, send_switch_data_loop(f.n, ids, zw),
             StatusOf(f.n, "switch", s_id), switch_payload(zw[s_id]))

send_switch_data_loop(n, ids, zw) ==
    IF ids = { } THEN [ n |-> n, out |-> << >>, done |-> FALSE ]
    ELSE IF Lowest(ids) \notin DOMAIN n.cmds
    THEN send_switch_data_loop(n, ids \ { Lowest(ids) }, zw)
    ELSE SendSwitchNext(
             should_status_send(n, Lowest(ids), zw[Lowest(ids)]),
             Lowest(ids), ids \ { Lowest(ids) }, zw)

send_switch_data_(n, zw) == send_switch_data_loop(n, get_switches(n.zwn), zw)

\* ZwNode._send_dimmer_data
RECURSIVE send_dimmer_data_loop(_, _, _)
SendDimmerNext(f, s_id, ids, zw) ==
    SendJoin(f, send_dimmer_data_loop(f.n, ids, zw),
             StatusOf(f.n, "light", s_id),
             light_payload(scale_to_hass(zw[s_id])))

send_dimmer_data_loop(n, ids, zw) ==
    IF ids = { } THEN [ n |-> n, out |-> << >>, done |-> FALSE ]
    ELSE IF Lowest(ids) \notin DOMAIN n.cmds
    THEN send_dimmer_data_loop(n, ids \ { Lowest(ids) }, zw)
    ELSE SendDimmerNext(
             should_status_send(n, Lowest(ids),
                                scale_to_hass(zw[Lowest(ids)])),
             Lowest(ids), ids \ { Lowest(ids) }, zw)

send_dimmer_data_(n, zw) == send_dimmer_data_loop(n, get_dimmers(n.zwn), zw)

\* ------------------------------------------------------------ registration
\* ZwNode._register_switches and _register_dimmers over the value ids `ids`:
\* each value id not yet in _cmds gets a HassCommand (last payload None) and
\* an action under the command topic built from its true label.
RECURSIVE register_loop(_, _, _)
\* lines 263-266, 275-277: r is the outcome of get_true_label for s_id
RegisterNext(n, r, s_id, ids, device_type) ==
    IF r.kind # "ok" THEN [ kind |-> r.kind, n |-> n ]
    ELSE register_loop(
             [ n EXCEPT
                 !.labels = r.lab,
                 !.cmds = Put(n.cmds, s_id, None),
                 !.topics = Put(n.topics,
                     CommandTopic(n.zwn, device_type, r.label),
                     [ kind |-> device_type, dev |-> n.zwn, vid |-> s_id ]) ],
             ids, device_type)

register_loop(n, ids, device_type) ==
    IF ids = { } THEN [ kind |-> "ok", n |-> n ]
    ELSE IF Lowest(ids) \in DOMAIN n.cmds
    THEN register_loop(n, ids \ { Lowest(ids) }, device_type)
    ELSE RegisterNext(n,
             get_true_label(n.labels, Point(Lowest(ids)).cc, Lowest(ids),
                            Point(Lowest(ids)).label),
             Lowest(ids), ids \ { Lowest(ids) }, device_type)

register_switches_(n) == register_loop(n, get_switches(n.zwn), "switch")

\* ZwNode._register_dimmers
register_dimmers_(n) == register_loop(n, get_dimmers(n.zwn), "light")

\* The true labels ZwNode._register_sensors asks for (lines 245-252)
RECURSIVE resolve_labels(_, _)
ResolveNext(n, r, ids) ==
    IF r.kind # "ok" THEN [ kind |-> r.kind, n |-> n ]
    ELSE resolve_labels([ n EXCEPT !.labels = r.lab ], ids)

resolve_labels(n, ids) ==
    IF ids = { } THEN [ kind |-> "ok", n |-> n ]
    ELSE ResolveNext(n,
             get_true_label(n.labels, Point(Lowest(ids)).cc, Lowest(ids),
                            Point(Lowest(ids)).label),
             ids \ { Lowest(ids) })

\* ZwNode._register_sensors: the metrics binding, the labels of the sensors,
\* then _collect_initial_sensor_data
register_sensors_(n, zw) ==
    CollectNext(resolve_labels([ n EXCEPT !.metrics_cmd = TRUE ],
                               get_sensors(n.zwn)),
                get_sensors(n.zwn), zw)

\* What Bridge.register_all does to one node (lines 86-89): rgbw (the
\* devices have no RGB bulb), dimmers, switches, sensors. The methods
\* register_rgbw, register_dimmers, register_switches and register_sensors
\* it calls return the node's topics, which update Bridge._actions; an
\* exception ends the sequence. `acts` is what the updates made so far add.
RegisterSensorsStep(r, zw) ==
    IF r.kind # "ok" THEN r
    ELSE [ kind |-> "ok", n |-> r.n, acts |-> r.n.topics ]

RegisterSwitchesStep(r, acts, zw) ==
    IF r.kind # "ok" THEN [ kind |-> r.kind, n |-> r.n, acts |-> acts ]
    ELSE RegisterSensorsStep(
             [ kind |-> register_sensors_(r.n, zw).kind,
               n |-> register_sensors_(r.n, zw).n,
               acts |-> r.n.topics ], zw)

RegisterDimmersStep(r, zw) ==
    IF r.kind # "ok" THEN [ kind |-> r.kind, n |-> r.n, acts |-> << >> ]
    ELSE RegisterSwitchesStep(register_switches_(r.n), r.n.topics, zw)

register_node(n, zw) == RegisterDimmersStep(register_dimmers_(n), zw)

\* dict.update
Update(f, g) ==
    [ x \in DOMAIN f \cup DOMAIN g |-> IF x \in DOMAIN g THEN g[x] ELSE f[x] ]

\* The loop of Bridge.register_all over the registry keys `keys` (in the
\* order of the device ids): the registry and the actions afterwards, and
\* the exception that ended the loop, if any.
LowestKey(ns, keys) ==
    CHOOSE k \in keys : \A j \in keys : ns[k].zwn <= ns[j].zwn

RECURSIVE register_all_loop(_, _, _, _)
RegisterAllNext(ns, acts, k, r, keys, zw) ==
    IF r.kind # "ok"
    THEN [ kind |-> r.kind, nodes |-> [ ns EXCEPT ![k] = r.n ],
           actions |-> Update(acts, r.acts) ]
    ELSE register_all_loop([ ns EXCEPT ![k] = r.n ], Update(acts, r.acts),
                           keys, zw)

register_all_loop(ns, acts, keys, zw) ==
    IF keys = { } THEN [ kind |-> "ok", nodes |-> ns, actions |-> acts ]
    ELSE RegisterAllNext(ns, acts, LowestKey(ns, keys),
                         register_node(ns[LowestKey(ns, keys)], zw),
                         keys \ { LowestKey(ns, keys) }, zw)

\* ------------------------------------------------------- sending the state
\* The methods Bridge.value_update calls on the node: send_switch_data,
\* send_dimmer_data and send_rgb_data run the node's loops over its
\* bindings; send_sensor_data collects the sensors' data into the metrics
\* and publishes them when Metrics.should_send says so.
Sent(r) == [ kind |-> "ok", n |-> r.n, out |-> r.out ]

send_switch_data(n, zw) == Sent(send_switch_data_(n, zw))

send_dimmer_data(n, zw) == Sent(send_dimmer_data_(n, zw))

\* no device of the network has an RGB bulb: get_rgbbulbs() is empty
send_rgb_data(n, zw) == [ kind |-> "ok", n |-> n, out |-> << >> ]

\* f is what should_send answered
FlushMetrics(f) ==
    [ kind |-> "ok", n |-> f.n,
      out |-> IF f.send THEN mqtt_metrics_send(f.n) ELSE << >> ]

\* c is the outcome of collecting the sensors' data
SendCollected(c, t) ==
    IF c.kind # "ok" THEN [ kind |-> c.kind, n |-> c.n, out |-> << >> ]
    ELSE FlushMetrics(should_send(c.n, t))

send_sensor_data(n, zw, t) ==
    SendCollected(collect_sensor_data(n, get_sensors(n.zwn), zw), t)

\* value.label.lower()
lower(label) == [ i \in 1..Len(label) |-> LowerChar(label[i]) ]

\* lines 110-111: send_rgb_data after send_dimmer_data gave a
DimmerThenRgb(a, b) == [ kind |-> "ok", n |-> b.n, out |-> a.out \o b.out ]

\* A dispatch that goes on when is_spamming answered True
DispatchIgnoringSpam(sp, p, zw, t) ==
    IF p.cc = COMMAND_CLASS_DIMMER
    THEN DimmerThenRgb(send_dimmer_data(sp.n, zw),
                       send_rgb_data(send_dimmer_data(sp.n, zw).n, zw))
    ELSE IF p.cc = COMMAND_CLASS_SWITCH THEN send_switch_data(sp.n, zw)
    ELSE IF p.cc = COMMAND_CLASS_RGB THEN send_rgb_data(sp.n, zw)
    ELSE IF p.cc = COMMAND_CLASS_NOTIFICATION \/ p.cc \in SENSORS
    THEN send_sensor_data(sp.n, zw, t)
    ELSE [ kind |-> "ok", n |-> sp.n, out |-> << >> ]

\* Bridge.value_update, lines 105-127, with sp the answer of is_spamming
DispatchByClass(sp, p, zw, t) ==
    IF sp.spam THEN [ kind |-> "ok", n |-> sp.n, out |-> << >> ]
    ELSE IF p.cc = COMMAND_CLASS_DIMMER
    THEN DimmerThenRgb(send_dimmer_data(sp.n, zw),
                       send_rgb_data(send_dimmer_data(sp.n, zw).n, zw))
    ELSE IF p.cc = COMMAND_CLASS_SWITCH THEN send_switch_data(sp.n, zw)
    ELSE IF p.cc = COMMAND_CLASS_RGB THEN send_rgb_data(sp.n, zw)
    ELSE IF p.cc = COMMAND_CLASS_NOTIFICATION \/ p.cc \in SENSORS
    THEN send_sensor_data(sp.n, zw, t)
    ELSE [ kind |-> "ok", n |-> sp.n, out |-> << >> ]

\* Variants of the dispatch
DispatchAnyGenre(n, p, zw, t, cfg) ==
    IF cfg = 0 \/ lower(p.label) \in IgnoredLabels
    THEN [ kind |-> "ok", n |-> n, out |-> << >> ]
    ELSE DispatchByClass(is_spamming(n, t), p, zw, t)

\* Bridge.value_update, lines 101-127: what the event of value-point p does
\* to the node entry n at time t, with cfg = Bridge._last_config.
dispatch_value(n, p, zw, t, cfg) ==
    IF p.genre # "User" \/ cfg = 0 \/ lower(p.label) \in IgnoredLabels
    THEN [ kind |-> "ok", n |-> n, out |-> << >> ]
    ELSE DispatchByClass(is_spamming(n, t), p, zw, t)

\* lines 96-100: the node entry of the event's device, created when the
\* registry has none under its name
WithNode(ns, d, t) ==
    IF DeviceName(d) \in DOMAIN ns THEN ns
    ELSE Put(ns, DeviceName(d), NewNode(d, t))

\* the registry with the entry `key` as the dispatch r left it
Dispatched(ns, key, r) ==
    [ kind |-> r.kind, nodes |-> [ ns EXCEPT ![key] = r.n ], out |-> r.out ]

DispatchIn(ns, p, zw, t, cfg) ==
    Dispatched(ns, DeviceName(p.dev),
               dispatch_value(ns[DeviceName(p.dev)], p, zw, t, cfg))

\* Bridge.value_update from line 93 on, reading `h` as self._healing: the
\* registry afterwards, the messages published, and the exception that
\* leaves value_update, if any.
after_repair_check(ns, h, p, zw, t, cfg) ==
    IF h THEN [ kind |-> "ok", nodes |-> ns, out |-> << >> ]
    ELSE DispatchIn(WithNode(ns, p.dev, t), p, zw, t, cfg)

\* ------------------------------------------------- the node's own methods
\* ZwNode.register: switches, sensors, then (no device has an RGB bulb, so
\* _register_rgbw returns False) dimmers; an exception ends the sequence.
RegisterThenDimmers(r) ==
    IF r.kind # "ok" THEN r ELSE register_dimmers_(r.n)

RegisterThenSensors(r, zw) ==
    IF r.kind # "ok" THEN r
    ELSE RegisterThenDimmers(register_sensors_(r.n, zw))

register(n, zw) == RegisterThenSensors(register_switches_(n), zw)

\* ZwNode.update_state, lines 303-305: r is the outcome of set_from_value
UpdateSensorNext(r, t) ==
    IF r.kind # "ok" THEN [ kind |-> r.kind, n |-> r.n, out |-> << >> ]
    ELSE FlushMetrics(should_send(r.n, t))

\* lines 306-315: r is what _send_dimmer_data or _send_switch_data did
UpdateDone(r) == [ kind |-> "ok", n |-> r.n, out |-> r.out ]

\* ZwNode.update_state for the value-point p at time t: the outcome, the
\* node afterwards and the messages published
update_state(n, p, zw, t) ==
    IF p.cc \in SENSORS THEN UpdateSensorNext(set_from_value(n, p, zw[p.vid]), t)
    ELSE IF p.cc = COMMAND_CLASS_DIMMER THEN UpdateDone(send_dimmer_data_(n, zw))
    ELSE IF p.cc = COMMAND_CLASS_SWITCH THEN UpdateDone(send_switch_data_(n, zw))
    ELSE [ kind |-> "ok", n |-> n, out |-> << >> ]

\* ================================================================== Bridge
NoEvent == [ vid |-> 0, day |-> 0, seq |-> 0 ]
NoPayload == [ fmt |-> "none", state |-> "", brightness |-> 0 ]
NoMessage == [ id |-> 0, topic |-> << >>, data |-> NoPayload ]

\* The payload of inbound messages: the bytes b"ON".
TextOn == [ fmt |-> "text", state |-> "ON", brightness |-> 0 ]

\* SwitchAction.action and DimmerAction.action on payload `data`: whether
\* it raises, and the value it sets on the device.
RunAction(a, data) ==
    IF a.kind = "switch"
    THEN [ raised |-> FALSE,
           set |-> IF data.fmt = "text" /\ data.state = "ON" THEN 1 ELSE 0 ]
    ELSE IF data.fmt # "json" THEN [ raised |-> TRUE, set |-> 0 ]
    ELSE [ raised |-> FALSE,
           set |-> IF data.state = "ON"
                   THEN (data.brightness * 95) \div 255 ELSE 0 ]

\* No call was made on the node yet.
\* Of the last call: its name, the value id and the metrics key it was
\* about, the value it wrote, what Metrics._dirty was before it, whether
\* the call before it was a should_send that returned True (`after`), what
\* it returned and what it published.
NoCall ==
    [ op |-> "none", vid |-> 0, key |-> << >>, value |-> [ type |-> "int", v |-> 0 ],
      dirty |-> FALSE, after |-> FALSE, result |-> FALSE, out |-> << >> ]

\* No is_spamming call was made on the node yet: `burst` counts the calls
\* made with the clock standing still, `fresh` says that they are the first
\* calls on the node, `suppressed` that one of them returned True, `pre` is
\* the budget the last call found after its refill and `result` what it
\* returned.
NoSpamCall ==
    [ burst |-> 0, fresh |-> TRUE, suppressed |-> FALSE, called |-> FALSE,
      pre |-> 0, result |-> FALSE ]

\* Variants of the definitions below, for checking that the properties of
\* this module tell the program from a program that differs in one place.
ThrottleOfFiveSeconds(t, last_attempt) == t - last_attempt > 5
ThrottleOfFiveHours(t, last_attempt) == t - last_attempt > 5 * 60 * 60
HealDueWheneverReady(ready, t, last_day) == ready
\* the flag is left set when network.heal is over
HealingStaysSet(raised) == TRUE

RepairTimeOnSuccessOnly(last_day, day, raised) ==
    IF raised THEN last_day ELSE day
SkipsNoMessage(h) == FALSE
HealDueWithoutReady(ready, t, last_day) == DayIndex(t) # last_day
ActionsGetAny(acts, topic) ==
    IF DOMAIN acts = { } THEN None
    ELSE Some(acts[CHOOSE k \in DOMAIN acts : TRUE])
LeavesOnMessageWhenRaised(raised) == raised

\* Bridge.check_for_repair, line 54
ThrottlePassed(t, last_attempt) == t - last_attempt > RepairThrottle

\* Bridge.check_for_repair, lines 56-58: whether a heal starts
HealDue(ready, t, last_day) == ready /\ DayIndex(t) # last_day

Init ==
    /\ now \in StartTimes
    /\ healing = FALSE
    /\ repair_time = 0
    /\ last_repair_attempt = 0
    /\ last_config = 0
    /\ actions = << >>
    /\ nodes = << >>
    /\ zw_values = [ v \in { p.vid : p \in Points } |-> InitialData(Point(v)) ]
    /\ published = << >>
    /\ vpc = "idle"
    /\ vlocal = NoEvent
    /\ mpc = "idle"
    /\ mlocal = NoMessage
    /\ calls = { }
    /\ heals = { }
    /\ invocations = { }
    /\ dropped = { }
    /\ escaped = { }
    /\ nEvents = 0
    /\ nMsgs = 0
    /\ nTicks = 0
    /\ labels = NewLabels
    /\ firstLabel = << >>
    /\ lastCall = [ cc |-> 0, vid |-> 0, raw |-> << >>, fresh |-> FALSE,
                    collided |-> FALSE, kind |-> "none", label |-> << >> ]
    /\ firstRaw = << >>
    /\ znode = NewNode(1, now)
    /\ zout = << >>
    /\ zhist = NoCall
    /\ spamHist = NoSpamCall


\* Bridge.check_for_repair, the finally block (lines 63-65): the flag and
\* the day-index it leaves, whether network.heal returned or raised.
HealingAfterHeal(raised) == FALSE
RepairTimeAfterHeal(last_day, day, raised) == day

\* Bridge._on_message, line 71: the message is skipped
SkipsMessage(h) == h

\* Bridge._on_message, line 75: self._actions.get(topic)
actions_get(acts, topic) ==
    IF topic \in DOMAIN acts THEN Some(acts[topic]) ELSE None

\* Bridge._on_message, lines 79-81: `except Exception` catches what the
\* action raised, so nothing leaves _on_message
LeavesOnMessage(raised) == FALSE

\* The end of value_update, r being what its lines 93-127 did: the registry,
\* the messages published, and the exception that leaves it, if any.
Handled(r) ==
    /\ nodes' = r.nodes
    /\ published' = published \o r.out
    /\ escaped' = IF r.kind = "ok" THEN escaped ELSE escaped \cup { r.kind }

\* Bridge.value_update, entered with an event of value-point p reporting
\* `data`. check_for_repair runs first; when it starts a heal the thread is
\* inside network.heal(True) with the flag set (lines 61-62), otherwise the
\* handler runs to its end.
ValueUpdate(p, data, ready) ==
    /\ vpc = "idle"
    /\ nEvents' = nEvents + 1
    /\ zw_values' = [ zw_values EXCEPT ![p.vid] = data ]
    /\ LET passed == ThrottlePassed(now, last_repair_attempt)
           starts == passed /\ HealDue(ready, now, repair_time)
       IN
       /\ calls' = calls \cup
              { [ seq |-> nEvents + 1, vid |-> p.vid, t |-> now, ready |-> ready,
                  la |-> last_repair_attempt, rt |-> repair_time,
                  heal |-> starts ] }
       /\ last_repair_attempt' = IF passed THEN now ELSE last_repair_attempt
       /\ IF starts
          THEN /\ healing' = TRUE
               /\ vpc' = "heal"
               /\ vlocal' = [ vid |-> p.vid, day |-> DayIndex(now),
                              seq |-> nEvents + 1 ]
               /\ UNCHANGED << nodes, published, escaped >>
          ELSE /\ Handled(after_repair_check(nodes, healing, p, zw_values',
                                              now, last_config))
               /\ UNCHANGED << healing, vpc, vlocal >>
    /\ UNCHANGED << now, repair_time, last_config, actions, mpc, mlocal,
                    heals, invocations, dropped, nMsgs, nTicks, labelVars, nodeVars >>

\* network.heal(True) returns: the finally block, then value_update goes on
\* from line 93.
HealReturn ==
    /\ vpc = "heal"
    /\ healing' = HealingAfterHeal(FALSE)
    /\ repair_time' = RepairTimeAfterHeal(repair_time, vlocal.day, FALSE)
    /\ heals' = heals \cup
           { [ seq |-> vlocal.seq, day |-> vlocal.day, raised |-> FALSE,
               healing_after |-> healing', repair_after |-> repair_time' ] }
    /\ Handled(after_repair_check(nodes, healing', Point(vlocal.vid),
                                   zw_values, now, last_config))
    /\ vpc' = "idle"
    /\ vlocal' = NoEvent
    /\ UNCHANGED << now, zw_values, last_repair_attempt, last_config, actions,
                    mpc, mlocal, calls, invocations, dropped, countVars,
                    labelVars, nodeVars >>

\* network.heal(True) raises: the finally block runs and, there being no
\* except clause, the exception leaves check_for_repair and value_update.
HealRaise ==
    /\ vpc = "heal"
    /\ healing' = HealingAfterHeal(TRUE)
    /\ repair_time' = RepairTimeAfterHeal(repair_time, vlocal.day, TRUE)
    /\ heals' = heals \cup
           { [ seq |-> vlocal.seq, day |-> vlocal.day, raised |-> TRUE,
               healing_after |-> healing', repair_after |-> repair_time' ] }
    /\ escaped' = escaped \cup { "HealError" }
    /\ vpc' = "idle"
    /\ vlocal' = NoEvent
    /\ UNCHANGED << now, zw_values, last_repair_attempt, last_config, actions,
                    nodes, published, mpc, mlocal, calls, invocations,
                    dropped, countVars, labelVars, nodeVars >>

\* HassMqtt._on_message -> Bridge._on_message, lines 71-73: the MQTT thread
\* reads the flag and either returns or goes on to line 74.
OnMessage(topic, data) ==
    /\ mpc = "idle"
    /\ nMsgs' = nMsgs + 1
    /\ IF SkipsMessage(healing)
       THEN /\ dropped' = dropped \cup
                   { [ id |-> nMsgs + 1, topic |-> topic ] }
            /\ UNCHANGED << mpc, mlocal >>
       ELSE /\ mpc' = "run"
            /\ mlocal' = [ id |-> nMsgs + 1, topic |-> topic, data |-> data ]
            /\ UNCHANGED dropped
    /\ UNCHANGED << now, zw_values, bridgeVars, vpc, vlocal, calls, heals,
                    invocations, escaped, nEvents, nTicks, labelVars, nodeVars >>

\* Bridge._on_message, lines 74-81: the action bound to the topic, if any,
\* is called; what it raises is caught and logged. An exception that left
\* _on_message would end the MQTT thread ("dead").
OnMessageAct ==
    /\ mpc = "run"
    /\ IF actions_get(actions, mlocal.topic) # None
       THEN LET a == CHOOSE x \in actions_get(actions, mlocal.topic) : TRUE
                r == RunAction(a, mlocal.data)
            IN /\ invocations' = invocations \cup
                     { [ id |-> mlocal.id, dev |-> a.dev, vid |-> a.vid,
                         healing |-> healing, raised |-> r.raised,
                         set |-> r.set ] }
               /\ escaped' = IF LeavesOnMessage(r.raised)
                             THEN escaped \cup { "ActionError" } ELSE escaped
               /\ mpc' = IF LeavesOnMessage(r.raised) THEN "dead" ELSE "idle"
       ELSE /\ UNCHANGED << invocations, escaped >>
            /\ mpc' = "idle"
    /\ mlocal' = NoMessage
    /\ UNCHANGED << now, zw_values, bridgeVars, vpc, vlocal, calls, heals,
                    dropped, countVars, labelVars, nodeVars >>

Registered(r) ==
    /\ nodes' = r.nodes
    /\ actions' = r.actions

\* Bridge.register_all, from the start-up loop or the /ha/register route
RegisterAll ==
    /\ last_config' = now
    /\ Registered(register_all_loop(nodes, actions, DOMAIN nodes, zw_values))
    /\ UNCHANGED << now, zw_values, healing, repair_time,
                    last_repair_attempt, published, threadVars, historyVars,
                    countVars, labelVars, nodeVars >>

\* The clock advances.
Tick(d) ==
    /\ nTicks' = nTicks + 1
    /\ now' = now + d
    /\ UNCHANGED << zw_values, bridgeVars, threadVars, historyVars, nEvents,
                    nMsgs, labelVars, nodeVars >>

\* The events, the clock steps and the messages of the two threads together:
\* the switch and the sensor of device 1 report, a message arrives on the
\* switch's command topic or on a topic no binding has.
BridgeEvents ==
    { [ p |-> Point(1), data |-> TRUE ], [ p |-> Point(2), data |-> Float(21000) ] }
BridgeSteps == { RepairThrottle + 1, DayLength }
BridgeTopics ==
    { CommandTopic(1, "switch", format_label(LabelSwitch)),
      CommandTopic(1, "switch", << "x" >>) }

Next ==
    \/ /\ nEvents + nMsgs + nTicks < MaxSteps
       /\ \E e \in BridgeEvents : \E ready \in BOOLEAN :
              ValueUpdate(e.p, e.data, ready)
    \/ HealReturn
    \/ HealRaise
    \/ /\ nEvents + nMsgs + nTicks < MaxSteps
       /\ \E topic \in BridgeTopics : OnMessage(topic, TextOn)
    \/ OnMessageAct
    \/ RegisterAll
    \/ /\ nEvents + nMsgs + nTicks < MaxSteps
       /\ \E d \in BridgeSteps : Tick(d)

\* The two threads start in the morning of day StartDay.
BridgeInit == Init /\ now = StartDay * DayLength + 1000

Spec == BridgeInit /\ [][Next]_vars

\* ------------------------------------------- the commands of the dimmer
\* Device 2 alone, with the network not ready (no heal starts): its dimmer
\* and its configuration value report, and messages arrive on the dimmer's
\* command topic or on a topic no binding has, with the bytes b"ON" or with
\* the JSON {"state": "ON", "brightness": 255}.
JsonOn == [ fmt |-> "json", state |-> "ON", brightness |-> 255 ]
CommandEvents ==
    { [ p |-> Point(3), data |-> 49 ], [ p |-> Point(3), data |-> 99 ],
      [ p |-> Point(4), data |-> 7 ] }
CommandTopics ==
    { CommandTopic(2, "light", format_label(LabelLevel)),
      CommandTopic(2, "light", << "x" >>) }

NextCommands ==
    \/ /\ nEvents + nMsgs < MaxSteps
       /\ \E e \in CommandEvents : ValueUpdate(e.p, e.data, FALSE)
    \/ /\ nEvents + nMsgs < MaxSteps
       /\ \E topic \in CommandTopics : \E data \in { TextOn, JsonOn } :
              OnMessage(topic, data)
    \/ OnMessageAct
    \/ RegisterAll

SpecCommands == BridgeInit /\ [][NextCommands]_vars

\* ------------------------------------------------- a device that floods
\* The switch of device 1 flaps, reporting the other state again and again
\* within one second, the network not being ready; register_all runs once,
\* at start-up; and when
\* the flood has used up the budget of the node the device pauses for the
\* time of the timeout.
NextFlood ==
    \/ /\ nEvents <= MaxBurst
       /\ ValueUpdate(Point(1), ~zw_values[1], FALSE)
    \/ /\ last_config = 0
       /\ nEvents <= 1
       /\ RegisterAll
    \/ /\ nTicks = 0
       /\ \E k \in DOMAIN nodes : nodes[k].spam_tick[2] < 0
       /\ Tick(SpamTimeout)

SpecFlood == BridgeInit /\ [][NextFlood]_vars

\* ------------------------------------------ check_for_repair calls alone
\* The Z-Wave thread alone, delivering events of the configuration value of
\* device 2 (which value_update does not dispatch): a sequence of
\* check_for_repair calls at the times and with the readiness chosen.
RepairPoint == Point(4)

NextRepair ==
    \/ /\ nEvents < MaxCalls
       /\ \E ready \in BOOLEAN : ValueUpdate(RepairPoint, 7, ready)
    \/ HealReturn
    \/ HealRaise
    \/ /\ nTicks < MaxTicks
       /\ \E d \in TimeSteps : Tick(d)

SpecRepair == Init /\ [][NextRepair]_vars

\* ------------------------------------------------ is_spamming calls alone
\* A node created when the bridge starts, and is_spamming called on it at
\* the pace the clock steps give.
SpamSteps == { SpamWindow, SpamWindow + 1, SpamTimeout }

\* One call of ZwNode.is_spamming on the node
IsSpamming ==
    /\ spamHist.burst < MaxBurst
    /\ znode' = is_spamming(znode, now).n
    /\ spamHist' =
           [ burst |-> spamHist.burst + 1,
             fresh |-> spamHist.fresh,
             suppressed |-> spamHist.suppressed \/ is_spamming(znode, now).spam,
             called |-> TRUE,
             pre |-> refilled(znode, now),
             result |-> is_spamming(znode, now).spam ]
    /\ UNCHANGED << now, zw_values, bridgeVars, threadVars, historyVars,
                    countVars, labelVars, zout, zhist >>

\* The clock advances between two is_spamming calls.
SpamTick(d) ==
    /\ nTicks < MaxTicks
    /\ nTicks' = nTicks + 1
    /\ now' = now + d
    /\ spamHist' =
           [ spamHist EXCEPT !.burst = 0,
                             !.fresh = spamHist.fresh /\ spamHist.burst = 0,
                             !.suppressed = FALSE ]
    /\ UNCHANGED << zw_values, bridgeVars, threadVars, historyVars, nEvents,
                    nMsgs, labelVars, znode, zout, zhist >>

NextSpam ==
    \/ IsSpamming
    \/ \E d \in SpamSteps : SpamTick(d)

\* The node is created when the bridge starts.
SpamInit == Init /\ now = StartDay * DayLength + 1000

SpecSpam == SpamInit /\ [][NextSpam]_vars

\* ------------------------------------------------- calls on a node alone
\* One ZwNode is driven directly: ZwNode.register, ZwNode.update_state for
\* the values of its device, and the methods of its Metrics.
NodeDevices == { p.dev : p \in Points }
NodeLevels == { 0, 49, 99 }
\* what a value-point of the device can report
NodeData(p) ==
    CASE p.cc = COMMAND_CLASS_SWITCH -> BOOLEAN
      [] p.cc = COMMAND_CLASS_DIMMER -> NodeLevels
      [] p.cc \in SENSORS -> { Float(20500), Float(20501), IntOf(21) }
      [] OTHER -> { 7 }
Battery == << "b", "a", "t", "t", "e", "r", "y" >>
BatteryLevels == { IntOf(80), IntOf(79) }
NodeSteps == { MetricsPeriod, MetricsPeriod + 1 }

\* the call before was a should_send that returned True
AfterFlush == zhist.op = "should_send" /\ zhist.result

\* ZwNode(zwn, mqtt, ignored_labels) for the device d
NodeCreate(d) ==
    /\ zhist.op = "none"
    /\ znode' = NewNode(d, now)
    /\ zhist' = [ NoCall EXCEPT !.op = "create" ]
    /\ UNCHANGED << now, zw_values, bridgeVars, threadVars, historyVars,
                    countVars, labelVars, zout, spamHist >>

\* the call `op` left the node as r.n and published r.out
NodeCalled(op, vid, r) ==
    /\ nEvents < MaxNodeCalls
    /\ nEvents' = nEvents + 1
    /\ znode' = r.n
    /\ zout' = zout \o r.out
    /\ zhist' = [ op |-> op, vid |-> vid, key |-> << >>,
                  value |-> [ type |-> "int", v |-> 0 ],
                  dirty |-> znode.dirty, after |-> AfterFlush,
                  result |-> r.kind = "ok", out |-> r.out ]
    /\ UNCHANGED << now, bridgeVars, threadVars, historyVars, nTicks, nMsgs,
                    labelVars, spamHist >>

\* node.register()
NodeRegister ==
    /\ NodeCalled("register", 0,
                  [ kind |-> register(znode, zw_values).kind,
                    n |-> register(znode, zw_values).n, out |-> << >> ])
    /\ UNCHANGED zw_values

\* the value-point p of the device reports `data`: node.update_state(value)
NodeUpdate(p, data) ==
    /\ p.dev = znode.zwn
    /\ zw_values' = [ zw_values EXCEPT ![p.vid] = data ]
    /\ NodeCalled("update_state", p.vid,
                  update_state(znode, p, zw_values', now))

\* a write to the metrics left the node as n
MetricsWritten(op, key, value, n) ==
    /\ nEvents < MaxNodeCalls
    /\ nEvents' = nEvents + 1
    /\ znode' = n
    /\ zhist' = [ op |-> op, vid |-> 0, key |-> key, value |-> value,
                  dirty |-> znode.dirty, after |-> AfterFlush,
                  result |-> TRUE, out |-> << >> ]
    /\ UNCHANGED << now, zw_values, bridgeVars, threadVars, historyVars,
                    nTicks, nMsgs, labelVars, zout, spamHist >>

\* Metrics.set_from_value(value) for the sensor p holding `data`, whose true
\* label is already known
MetricsSetFromValue(p, data) ==
    /\ p.dev = znode.zwn
    /\ p.cc \in SENSORS
    /\ Str(p.cc) \o Str(p.vid) \in DOMAIN znode.labels.label_map
    /\ MetricsWritten("set_from_value",
                      znode.labels.label_map[Str(p.cc) \o Str(p.vid)],
                      get_true_value(data), set_from_value(znode, p, data).n)

\* Metrics.set_direct("battery", level)
MetricsSetDirect(level) ==
    MetricsWritten("set_direct", Battery, level,
                   set_direct(znode, Battery, level))

\* Metrics.should_send()
MetricsShouldSend ==
    /\ nEvents < MaxNodeCalls
    /\ nEvents' = nEvents + 1
    /\ znode' = should_send(znode, now).n
    /\ zhist' = [ op |-> "should_send", vid |-> 0, key |-> << >>,
                  value |-> [ type |-> "int", v |-> 0 ],
                  dirty |-> znode.dirty, after |-> AfterFlush,
                  result |-> should_send(znode, now).send, out |-> << >> ]
    /\ UNCHANGED << now, zw_values, bridgeVars, threadVars, historyVars,
                    nTicks, nMsgs, labelVars, zout, spamHist >>

\* time passes between two calls
NodeTick(d) ==
    /\ zhist.op # "tick"
    /\ nTicks < MaxTicks
    /\ nTicks' = nTicks + 1
    /\ now' = now + d
    /\ zhist' = [ zhist EXCEPT !.op = "tick" ]
    /\ UNCHANGED << zw_values, bridgeVars, threadVars, historyVars, nEvents,
                    nMsgs, labelVars, znode, zout, spamHist >>

NextNode ==
    \/ \E d \in NodeDevices : NodeCreate(d)
    \/ NodeRegister
    \/ \E p \in Points : \E data \in NodeData(p) : NodeUpdate(p, data)
    \/ \E p \in Points : \E data \in NodeData(p) : MetricsSetFromValue(p, data)
    \/ \E level \in BatteryLevels : MetricsSetDirect(level)
    \/ MetricsShouldSend
    \/ \E d \in NodeSteps : NodeTick(d)

NodeInit == Init /\ now = StartDay * DayLength + 1000

SpecNode == NodeInit /\ [][NextNode]_vars

\* ------------------------------------------------- a Labels instance alone
\* The (command class, value id) pairs of the values of one device
LabelPairs ==
    { << COMMAND_CLASS_SENSOR, 1 >>, << COMMAND_CLASS_SENSOR, 2 >>,
      << COMMAND_CLASS_SENSOR, 3 >>, << COMMAND_CLASS_NOTIFICATION, 4 >> }
RawLabels == { << >>, << "T" >>, << "A", " ", "B" >>, << "T", "m", "p" >> }

\* One call of Labels.get_true_label on the instance. A call that never
\* returns ("hang") is the last one. The history keeps, of the call, whether
\* its pair had no entry in _label_map (fresh) and whether its normalized raw
\* label was already taken in its command class (collided).
GetTrueLabel(cc, vid, raw) ==
    /\ lastCall.kind # "hang"
    /\ LET r == get_true_label(labels, cc, vid, raw) IN
       /\ labels' = r.lab
       /\ lastCall' =
              [ cc |-> cc, vid |-> vid, raw |-> raw,
                fresh |-> (Str(cc) \o Str(vid)) \notin DOMAIN labels.label_map,
                collided |-> (Str(cc) \o format_label(raw))
                                 \in labels.taken_labels,
                kind |-> r.kind, label |-> r.label ]
       /\ firstRaw' =
              IF r.kind = "ok" /\ << cc, vid >> \notin DOMAIN firstLabel
              THEN Put(firstRaw, << cc, vid >>, raw)
              ELSE firstRaw
       /\ firstLabel' =
              IF r.kind = "ok" /\ << cc, vid >> \notin DOMAIN firstLabel
              THEN Put(firstLabel, << cc, vid >>, r.label)
              ELSE firstLabel
    /\ UNCHANGED << now, zw_values, bridgeVars, threadVars, historyVars,
                    countVars, nodeVars >>

NextLabels ==
    \E pair \in LabelPairs : \E raw \in RawLabels :
        GetTrueLabel(pair[1], pair[2], raw)

\* The instance is created when the bridge starts.
LabelsInit == Init /\ now = StartDay * DayLength + 1000

SpecLabels == LabelsInit /\ [][NextLabels]_vars

\* ------------------------------------------- many values with one label
\* The values of two command classes of one device all carry the label
\* "Tmp" and are resolved, class by class, in the order of their value ids.
Resolved(cc) == Cardinality({ pair \in DOMAIN firstLabel : pair[1] = cc })

NextSuffix ==
    \E cc \in { COMMAND_CLASS_SENSOR, COMMAND_CLASS_NOTIFICATION } :
        /\ Resolved(cc) < MaxSame
        /\ GetTrueLabel(cc, Resolved(cc) + 1, << "T", "m", "p" >>)

SpecSuffix == LabelsInit /\ [][NextSuffix]_vars

\* ============================================================== properties

\* C1: under any interleaving of MQTT messages and heals, no action is
\* invoked while the healing flag is true.
NoActionWhileHealing == \A i \in invocations : ~ i.healing

\* C3: a message that enters _on_message while the healing flag is true
\* invokes no action and changes nothing of the bridge, whatever its topic,
\* and a message dropped in this way is never executed later.
DroppedWhileHealing ==
    [][ /\ (healing /\ nMsgs' = nMsgs + 1) =>
            /\ UNCHANGED << bridgeVars, zw_values, invocations, mpc, mlocal >>
            /\ \E topic \in BridgeTopics :
                   dropped' = dropped \cup
                                { [ id |-> nMsgs', topic |-> topic ] }
        /\ \A i \in invocations' : \A d \in dropped' : i.id # d.id
      ]_vars

\* A message on a topic that has an action was dropped during a heal, and the
\* heal is over.
DroppedKnownTopic ==
    /\ ~ healing
    /\ mpc = "idle"
    /\ \E d \in dropped : d.topic \in DOMAIN actions

\* C4: of two check_for_repair calls less than 5 minutes apart, at most one
\* starts a heal, even when the calendar day changes between them.
AtMostOneHealInFiveMinutes ==
    \A c1, c2 \in calls :
        (c1.seq < c2.seq /\ c2.t - c1.t < RepairThrottle) =>
            ~ (c1.heal /\ c2.heal)

\* The first call healed; the second came less than 5 minutes later, on the
\* next day and with the network ready, and did not heal.
ThrottledAcrossMidnight ==
    \E c1, c2 \in calls :
        /\ c1.seq < c2.seq
        /\ c2.t - c1.t < RepairThrottle
        /\ c1.heal
        /\ c2.ready
        /\ DayIndex(c2.t) # DayIndex(c1.t)
        /\ DayIndex(c2.t) # c2.rt
        /\ ~ c2.heal

\* C5, as stated: two check_for_repair calls on different calendar days,
\* both with the network ready, both start a heal.
HealOnEachDay ==
    \A c1, c2 \in calls :
        (/\ DayIndex(c1.t) # DayIndex(c2.t)
         /\ c1.ready
         /\ c2.ready) => (c1.heal /\ c2.heal)

\* C5, amended: two check_for_repair calls on different calendar days, both
\* with the network ready, each more than 5 minutes after the previous
\* attempt and on a day other than that of the last heal, both start a heal.
HealOnEachDayUnthrottled ==
    \A c1, c2 \in calls :
        (/\ DayIndex(c1.t) # DayIndex(c2.t)
         /\ c1.ready /\ c1.t - c1.la > RepairThrottle /\ DayIndex(c1.t) # c1.rt
         /\ c2.ready /\ c2.t - c2.la > RepairThrottle /\ DayIndex(c2.t) # c2.rt)
            => (c1.heal /\ c2.heal)

\* Two calls on different days have both started a heal.
HealedOnTwoDays ==
    \E c1, c2 \in calls :
        /\ DayIndex(c1.t) # DayIndex(c2.t)
        /\ c1.ready /\ c1.t - c1.la > RepairThrottle /\ DayIndex(c1.t) # c1.rt
        /\ c2.ready /\ c2.t - c2.la > RepairThrottle /\ DayIndex(c2.t) # c2.rt
        /\ c1.heal
        /\ c2.heal

\* C6: with the clock never going back, at most one heal starts per
\* day-index: a heal starts only with the network ready and on a day other
\* than that of the last heal, and after a heal on day d no later call on
\* day d starts another.
OneHealPerDay ==
    /\ \A c \in calls : c.heal => (c.ready /\ DayIndex(c.t) # c.rt)
    /\ \A c1, c2 \in calls :
           (c1.seq < c2.seq /\ c1.heal /\ DayIndex(c2.t) = DayIndex(c1.t))
               => ~ c2.heal

\* A call healed; a later call on the same day, ready and past the throttle,
\* did not.
SecondCallSameDay ==
    \E c1, c2 \in calls :
        /\ c1.seq < c2.seq
        /\ c1.heal
        /\ DayIndex(c2.t) = DayIndex(c1.t)
        /\ c2.ready
        /\ c2.t - c2.la > RepairThrottle
        /\ ~ c2.heal

\* C7: when the heal raises, the healing flag is false afterwards, the day
\* of the attempt is recorded as the last heal day, and no later call on
\* that day starts a heal.
FailedHealCountsForTheDay ==
    \A h \in heals :
        h.raised =>
            /\ h.healing_after = FALSE
            /\ \A c \in calls : c.seq = h.seq => h.repair_after = DayIndex(c.t)
            /\ \A c \in calls :
                   (c.seq > h.seq /\ DayIndex(c.t) = h.day) => ~ c.heal

\* A heal raised; a later call on the same day, ready and past the throttle,
\* did not retry it.
NoRetryAfterFailedHeal ==
    \E h \in heals : \E c \in calls :
        /\ h.raised
        /\ c.seq > h.seq
        /\ DayIndex(c.t) = h.day
        /\ c.ready
        /\ c.t - c.la > RepairThrottle
        /\ ~ c.heal

\* C8: no failure escapes value_update.
NothingEscapesValueUpdate == escaped = { }

\* C9: value_update and _on_message never run at the same time.
HandlersSerialized == ~ (vpc # "idle" /\ mpc # "idle")

\* C10: a call of get_true_label with a (command class, value id) pair that
\* was resolved before returns the label returned the first time, whatever
\* the raw label passed.
TrueLabelStable ==
    << lastCall.cc, lastCall.vid >> \in DOMAIN firstLabel =>
        /\ lastCall.kind = "ok"
        /\ lastCall.label = firstLabel[<< lastCall.cc, lastCall.vid >>]

\* C11: distinct (command class, value id) pairs of one command class that
\* were resolved with the same raw label have pairwise distinct labels.
DistinctLabelsInClass ==
    \A p, q \in DOMAIN firstLabel :
        (p # q /\ p[1] = q[1] /\ firstRaw[p] = firstRaw[q]) =>
            firstLabel[p] # firstLabel[q]

\* Three value-points of one command class were resolved with the same raw
\* label.
ThreeSameRawLabel ==
    \E p, q, r \in DOMAIN firstLabel :
        /\ p # q /\ p # r /\ q # r
        /\ p[1] = q[1] /\ q[1] = r[1]
        /\ firstRaw[p] = firstRaw[q] /\ firstRaw[q] = firstRaw[r]

\* C12: within one Labels instance no two distinct (command class, value id)
\* pairs hold the same label, whatever their command classes.
DistinctLabelsInDevice ==
    \A p, q \in DOMAIN firstLabel : p # q => firstLabel[p] # firstLabel[q]

\* C13: a value-point not resolved before whose normalized label has 0, 1 or
\* 2 characters and is already taken gets that label with "_2" appended, and
\* the call does not raise.
ShortLabelGetsSuffix ==
    (/\ lastCall.fresh
     /\ lastCall.collided
     /\ Len(format_label(lastCall.raw)) <= 2) =>
        /\ lastCall.kind = "ok"
        /\ lastCall.label = format_label(lastCall.raw) \o << "_", "2" >>

\* C14: of the first 600 or more is_spamming calls on a fresh node, all
\* made within one second, at least one returns true.
BurstIsSuppressed ==
    (spamHist.fresh /\ spamHist.burst >= SpamBudget) => spamHist.suppressed

\* C15: the is_spamming call that decrements the budget to exactly zero
\* returns true, and so does every call that finds the budget in the
\* negative cooldown range.
CooldownSuppresses ==
    (spamHist.called /\ (spamHist.pre = 1 \/ spamHist.pre < 0)) =>
        spamHist.result

\* C16: Metrics.should_send returns False when it is called right after a
\* call that returned True, with no write and no time in between; and it
\* returns True when the map is not empty and more than 120 seconds have
\* passed since the last flush, even if no write changed a value.
FlushOnceThenPeriodically ==
    [][ (nEvents' = nEvents + 1 /\ zhist'.op = "should_send") =>
            /\ AfterFlush => ~zhist'.result
            /\ (DOMAIN znode.data # { }
                  /\ now - znode.last_metric_ts > MetricsPeriod)
                => zhist'.result ]_vars

\* should_send returned True on a map that no write had changed since the
\* flush before
PeriodicFlush ==
    /\ zhist.op = "should_send"
    /\ zhist.result
    /\ ~zhist.dirty
    /\ ~zhist.after

\* C17: Metrics.set_from_value and Metrics.set_direct set the dirty flag only
\* when the normalized new value differs from the value stored under the
\* key, and then store it; a write of a value equal to the stored one leaves
\* the data map and the dirty flag as they were.
WriteMarksOnlyChange ==
    [][ (nEvents' = nEvents + 1
          /\ zhist'.op \in { "set_from_value", "set_direct" }) =>
            IF zhist'.key \in DOMAIN znode.data
               /\ znode.data[zhist'.key] = zhist'.value
            THEN znode'.data = znode.data /\ znode'.dirty = znode.dirty
            ELSE znode'.dirty /\ zhist'.key \in DOMAIN znode'.data
                 /\ znode'.data[zhist'.key] = zhist'.value ]_vars

\* set_from_value wrote a float on a map that was not dirty and formats to
\* the string stored, and the map is still not dirty
EqualWriteKeptClean ==
    /\ zhist.op = "set_from_value"
    /\ zhist.value.type = "str"
    /\ ~zhist.dirty
    /\ ~znode.dirty

\* the payload should_status_send is asked about for the binding of s_id
\* (_send_switch_data line 200, _send_dimmer_data line 210)
StatusPayload(s_id, zw) ==
    IF Point(s_id).cc = COMMAND_CLASS_DIMMER THEN scale_to_hass(zw[s_id])
    ELSE zw[s_id]

\* the publications i < j are on one command binding's status topic, with
\* none on that topic between them
ConsecutiveOnBinding(i, j) ==
    /\ i < j
    /\ Len(zout[i].topic) = 5
    /\ Len(zout[j].topic) = 5
    /\ zout[i].topic = zout[j].topic
    /\ \A k \in (i + 1)..(j - 1) :
           Len(zout[k].topic) = 5 => zout[k].topic # zout[i].topic

\* C18: on every command binding should_status_send returns True, and
\* stores the payload, exactly when the payload differs from the last one
\* for which it returned True; so no two consecutive state publications on
\* one binding carry equal payloads.
StatePublishedOnChangeOnly ==
    /\ [](\A i, j \in 1..Len(zout) :
             ConsecutiveOnBinding(i, j) => zout[i].payload # zout[j].payload)
    /\ [][ (nEvents' = nEvents + 1 /\ zhist'.op = "update_state"
             /\ zhist'.vid \in DOMAIN znode.cmds) =>
               /\ (zhist'.out # << >>) <=>
                      (znode.cmds[zhist'.vid]
                         # Some(StatusPayload(zhist'.vid, zw_values')))
               /\ znode'.cmds[zhist'.vid]
                     = Some(StatusPayload(zhist'.vid, zw_values')) ]_vars

\* the switch reported True, "ON" was published, and the same report came
\* again and published nothing
SecondIdenticalEventSilent ==
    /\ zhist.op = "update_state"
    /\ zhist.vid \in DOMAIN znode.cmds
    /\ Point(zhist.vid).cc = COMMAND_CLASS_SWITCH
    /\ zhist.out = << >>
    /\ zw_values[zhist.vid] = TRUE
    /\ \E i \in 1..Len(zout) :
          /\ Len(zout[i].topic) = 5
          /\ zout[i].payload = "ON"

\* C19: the node entry created on the first event of a device not seen
\* before has a binding for every switch and dimmer of the device and the
\* metrics binding of its sensors, so that its state changes are published
\* without a call of register_all.
NewNodeIsRegistered ==
    \A k \in DOMAIN nodes :
        /\ get_switches(nodes[k].zwn) \cup get_dimmers(nodes[k].zwn)
              \subseteq DOMAIN nodes[k].cmds
        /\ nodes[k].metrics_cmd

\* C20: for every dimmer level v of 0..99 that a device reports, the
\* brightness published is round(v * 255 / 99), which is the integer part
\* of (2 * v * 255 + 99) / 198; the level 49 is published as 126.
BrightnessIsRounded ==
    (zhist.op = "update_state"
       /\ Point(zhist.vid).cc = COMMAND_CLASS_DIMMER) =>
        \A i \in 1..Len(zhist.out) :
            zhist.out[i].payload.brightness
                = (2 * zw_values[zhist.vid] * 255 + 99) \div 198

\* C21: an inbound message whose topic has no command binding invokes no
\* action, raises nothing and changes nothing of the bridge or its nodes.
UnknownTopicIsIgnored ==
    [][ (mpc = "run" /\ mpc' # "run" /\ mlocal.topic \notin DOMAIN actions) =>
            /\ UNCHANGED << bridgeVars, zw_values, invocations, escaped >>
            /\ mpc' = "idle" ]_vars

\* With bindings registered, a message was handled to its end without being
\* dropped and without an action being invoked
UnknownTopicHandled ==
    /\ nMsgs >= 1
    /\ mpc = "idle"
    /\ dropped = { }
    /\ invocations = { }
    /\ actions # << >>

\* C22: when the action bound to the topic of an inbound message fails,
\* nothing leaves Bridge._on_message and the message changes nothing; and
\* every message that comes to its end, before or after such a failure, has
\* had the action of its topic called.
FailedActionIsContained ==
    [][ (mpc = "run" /\ mpc' # "run") =>
            /\ escaped' = escaped
            /\ mpc' = "idle"
            /\ UNCHANGED << bridgeVars, zw_values >>
            /\ mlocal.topic \in DOMAIN actions =>
                 \E i \in invocations' \ invocations :
                     /\ i.id = mlocal.id
                     /\ i.vid = actions[mlocal.topic].vid ]_vars

\* The dimmer's action raised on a payload that is no JSON, and a later
\* message set the dimmer to its full level
RoutedAfterFailure ==
    \E i, j \in invocations :
        /\ i.raised
        /\ j.id > i.id
        /\ ~j.raised
        /\ j.set = 95

\* C23: after any sequence of value events every key of the node registry
\* is non-empty, and every device that has reported has an entry of its own
\* (a device without a name being keyed by its numeric id).
NodeKeysIdentifyDevices ==
    /\ \A k \in DOMAIN nodes : k # ""
    /\ \A j, k \in DOMAIN nodes : nodes[j].zwn = nodes[k].zwn => j = k
    /\ \A c \in calls :
           \E k \in DOMAIN nodes : nodes[k].zwn = Point(c.vid).dev

\* C24: as long as register_all has not run, no value event publishes
\* anything; and an event whose genre is not "User" publishes nothing and
\* leaves every node entry (spam budget, metrics, last payloads) as it was.
QuietBeforeRegistration ==
    /\ [](last_config = 0 => published = << >>)
    /\ [][ \A c \in calls' \ calls :
               Point(c.vid).genre # "User" =>
                   /\ published' = published
                   /\ \A k \in DOMAIN nodes : nodes'[k] = nodes[k] ]_vars

\* The configuration value reported after the registration and after a
\* state of the dimmer had been published
ConfigEventAfterPublish ==
    /\ last_config # 0
    /\ published # << >>
    /\ \E c \in calls : c.seq = nEvents /\ Point(c.vid).genre = "Config"

\* C25: a value labelled for the burglar sensor that is written through
\* set_from_value also writes the key "sensor" into the metrics map, "on"
\* when the raw value is greater than zero and "off" otherwise.
BurglarWritesSensorKey ==
    (zhist.op = "set_from_value" /\ zhist.key = format_label(LabelBurglar)) =>
        /\ << "s", "e", "n", "s", "o", "r" >> \in DOMAIN znode.data
        /\ znode.data[<< "s", "e", "n", "s", "o", "r" >>]
             = IF zhist.value.v > 0 THEN "on" ELSE "off"

\* C26: an event that is_spamming reports as suppressed has no other effect:
\* nothing is published, and of the node entry (metrics, dirty flag, last
\* payloads, labels) only the spam state changes.
SuppressedEventHasNoEffect ==
    [][ \A c \in calls' \ calls :
            (/\ DeviceName(Point(c.vid).dev) \in DOMAIN nodes
             /\ last_config # 0
             /\ ~healing
             /\ Point(c.vid).genre = "User"
             /\ is_spamming(nodes[DeviceName(Point(c.vid).dev)], now).spam) =>
                /\ published' = published
                /\ nodes' =
                     [ nodes EXCEPT ![DeviceName(Point(c.vid).dev)].spam_tick =
                         nodes'[DeviceName(Point(c.vid).dev)].spam_tick ] ]_vars

\* The budget of the registered node stands at zero, which is where a
\* suppressed event leaves it, and the switch holds a state other than the
\* last one published
ChangeSuppressed ==
    \E k \in DOMAIN nodes :
        /\ nodes[k].spam_tick[2] = 0
        /\ 1 \in DOMAIN nodes[k].cmds
        /\ nodes[k].cmds[1] # Some(zw_values[1])

\* C27: a check_for_repair call made more than 5 minutes after the last
\* attempt, while the network is not ready or while the day-index of the
\* call is the last healed one, starts no heal and leaves the last healed
\* day-index as it was, but sets the attempt timestamp to the time of the
\* call.
IdleAttemptIsRecorded ==
    [][ \A c \in calls' \ calls :
            (/\ now - last_repair_attempt > RepairThrottle
             /\ (~c.ready \/ DayIndex(now) = repair_time)) =>
                /\ ~c.heal
                /\ healing' = healing
                /\ repair_time' = repair_time
                /\ last_repair_attempt' = now ]_vars

\* More than 5 minutes after the attempt before it, a call found the
\* network ready on a day that already had its heal, and started none
IdleOnHealedDay ==
    \E c \in calls :
        /\ c.ready
        /\ c.la # 0
        /\ c.t - c.la > RepairThrottle
        /\ DayIndex(c.t) = c.rt
        /\ ~c.heal

\* C28: on each is_spamming call, with elapsed the seconds since lastTime:
\* if elapsed > 10 the budget becomes min(budget + elapsed, 100) and
\* lastTime becomes now, before the decrement step; if elapsed <= 10 the
\* budget is not refilled and lastTime stays. (The decrement step takes one
\* from a positive budget and puts -60 in the place of a zero.)
RefillAfterTenSeconds ==
    [][ spamHist'.burst = spamHist.burst + 1 =>
          LET elapsed == now - znode.spam_tick[1]
              budget == znode.spam_tick[2]
              filled == IF elapsed > 10
                        THEN (IF budget + elapsed < 100
                              THEN budget + elapsed ELSE 100)
                        ELSE budget
          IN /\ znode'.spam_tick[1] =
                    IF elapsed > 10 THEN now ELSE znode.spam_tick[1]
             /\ znode'.spam_tick[2] =
                    IF filled > 1 THEN filled - 1
                    ELSE IF filled = 1 THEN -60 ELSE filled ]_vars

\* The first call after a pause found a budget over the cap and left 99
RefillCapped ==
    /\ spamHist.burst = 1
    /\ ~spamHist.fresh
    /\ znode.spam_tick = << now, 99 >>

\* C29: get_true_label terminates, and of the values of one command class
\* that share one normalized label the k-th one resolved (k >= 2) gets the
\* label with the suffix _k, for more than 10 values as well.
SuffixCountsUp ==
    /\ lastCall.kind \in { "none", "ok" }
    /\ \A pair \in DOMAIN firstLabel :
           pair[2] >= 2 =>
               firstLabel[pair]
                   = format_label(firstRaw[pair]) \o << "_" >> \o Str(pair[2])

\* C30: whenever should_send returns True while a sensor event is handled
\* (the dirty flag is cleared, the flush timestamp set), the whole metrics
\* map of the node is published on its sensor topic in that step; a dirty
\* change is never cleared without being published.
FlushIsPublished ==
    [][ (/\ nEvents' = nEvents + 1
         /\ zhist'.op = "update_state"
         /\ Point(zhist'.vid).cc \in SENSORS
         /\ \/ znode'.last_metric_ts # znode.last_metric_ts
            \/ znode.dirty /\ ~znode'.dirty) =>
            \E i \in 1..Len(zhist'.out) :
                /\ zhist'.out[i].topic = MetricTopic(znode.zwn)
                /\ zhist'.out[i].payload = znode'.data ]_vars

\* C31: for every dimmer level of 0..99 the brightness published to the hub
\* lies in the range 0..255 of the hub.
BrightnessInHubRange ==
    \A i \in 1..Len(zout) :
        (Len(zout[i].topic) = 5 /\ zout[i].topic[2] = "light") =>
            zout[i].payload.brightness \in 0..255

\* C32: after any sequence of is_spamming calls at times that do not
\* decrease, the spam budget of the node lies in -60..600; it is at most 100
\* after a call on which a refill happened; and a call changes a budget
\* that is not positive only through a refill (elapsed > 10).
BudgetStaysInRange ==
    /\ [](znode.spam_tick[2] \in -60..600)
    /\ [][ spamHist'.burst = spamHist.burst + 1 =>
             /\ now - znode.spam_tick[1] > 10 => znode'.spam_tick[2] <= 100
             /\ (znode.spam_tick[2] <= 0 /\ now - znode.spam_tick[1] <= 10)
                  => znode'.spam_tick[2] = znode.spam_tick[2] ]_vars

\* The first call after a pause refilled a used-up budget, which is still
\* negative
NegativeBudgetRefilled ==
    /\ spamHist.burst = 1
    /\ znode.spam_tick[1] = now
    /\ znode.spam_tick[2] \in -59..-1

\* C33: the healing flag is true only while network.heal is executing inside
\* check_for_repair; so the value event whose handling started a heal is not
\* lost: when the heal returns normally, the same call of value_update goes
\* on with that event to the node lookup (its device has an entry in the
\* registry afterwards) and to the dispatch (for a User value after the
\* configuration, with a label that is not ignored, the entry has been asked
\* is_spamming at that time).
HealingEventIsNotLost ==
    /\ [](healing <=> vpc = "heal")
    /\ [][ (vpc = "heal" /\ vpc' = "idle"
              /\ \E h \in heals' \ heals : ~h.raised) =>
             LET p    == Point(vlocal.vid)
                 name == DeviceName(p.dev)
                 was  == IF name \in DOMAIN nodes THEN nodes[name]
                         ELSE NewNode(p.dev, now)
             IN /\ ~healing'
                /\ name \in DOMAIN nodes'
                /\ (p.genre = "User" /\ last_config # 0
                      /\ lower(p.label) \notin IgnoredLabels) =>
                       nodes'[name].spam_tick = is_spamming(was, now).n.spam_tick
           ]_vars

\* The first event after the configuration started a heal that returned
\* normally, and the event took one from the spam budget of its new node
HealedEventDispatched ==
    /\ nEvents = 1
    /\ vpc = "idle"
    /\ last_config # 0
    /\ \E h \in heals : h.seq = 1 /\ ~h.raised
    /\ "Kitchen" \in DOMAIN nodes
    /\ nodes["Kitchen"].spam_tick[2] = SpamBudget - 1

==============================================================================
